---- MODULE Spec2Model ----
(***************************************************************************)
(* PanteraAWS backend (src/backend/main.py): a UDP listener that spawns    *)
(* one insert task per datagram, two HTTP query handlers, and the lifespan *)
(* that creates and closes the asyncpg pool they share.                    *)
(*                                                                         *)
(* One action is one run of a coroutine between two points where it        *)
(* really suspends (an asyncio event loop runs one callback at a time).    *)
(* The store executes one statement atomically.                            *)
(***************************************************************************)
EXTENDS Integers, Sequences, FiniteSets, TLC

\* ------------------------------------------------------------------ bounds
\* Connections of the pool (asyncpg.create_pool, line 25).
PoolSize == 2
\* Datagrams delivered to the listener in one run.
MaxDatagrams == 2
\* HTTP queries issued in one run.
MaxQueries == 1

\* ------------------------------------------------------- program constants
\* get_all_locations(limit: int = 100)
DefaultLimit == 100
\* latitude DECIMAL(10, 8)
LatPrecision == 10
\* longitude DECIMAL(11, 8)
LonPrecision == 11
\* the scale of both DECIMAL columns
CoordScale == 8

\* ------------------------------------------------------------------ values
\* SQL NULL and Python None.
Null == [t |-> "null"]

\* A JSON number as written: sign, whole part and fractional digits.
Num(neg, whole, frac) == [t |-> "num", neg |-> neg, whole |-> whole, frac |-> frac]

IsNum(v) == v.t = "num"
\* Python int: a JSON number without a fractional part.
IsInt(v) == IsNum(v) /\ v.frac = <<>>

RECURSIVE Pow10(_)
Pow10(n) == IF n = 0 THEN 1 ELSE 10 * Pow10(n - 1)

\* The digits d[1..n] (missing ones are 0) read as a number.
RECURSIVE DigitsValue(_, _)
DigitsValue(d, n) ==
    IF n = 0 THEN 0
    ELSE 10 * DigitsValue(d, n - 1) + (IF n <= Len(d) THEN d[n] ELSE 0)

\* A stored DECIMAL(p, s): sign, whole part, and s fractional digits as one
\* number.  What the store keeps of a number v: v rounded to s fractional
\* digits, half away from zero.
Quantize(v, s) ==
    LET f  == DigitsValue(v.frac, s)
        up == Len(v.frac) > s /\ v.frac[s + 1] >= 5
        f1 == IF up THEN f + 1 ELSE f
        w  == IF f1 = Pow10(s) THEN v.whole + 1 ELSE v.whole
        f2 == IF f1 = Pow10(s) THEN 0 ELSE f1
    IN  [t |-> "dec", neg |-> v.neg /\ (w # 0 \/ f2 # 0), whole |-> w, frac |-> f2]

\* A DECIMAL(p, s) holds p - s digits before the point.
FitsDecimal(d, p, s) == d.whole < Pow10(p - s)

\* The number a stored DECIMAL with s fractional digits stands for, written
\* as a JSON number is written: trailing zeros dropped.
RECURSIVE FracDigits(_, _)
FracDigits(f, s) ==
    IF s = 0 THEN <<>> ELSE Append(FracDigits(f \div 10, s - 1), f % 10)

RECURSIVE StripZeros(_)
StripZeros(d) ==
    IF d # <<>> /\ d[Len(d)] = 0 THEN StripZeros(SubSeq(d, 1, Len(d) - 1)) ELSE d

DecimalValue(d, s) == Num(d.neg, d.whole, StripZeros(FracDigits(d.frac, s)))

\* The value of a JSON number, whatever zeros it was written with.
NumValue(v) == Num(v.neg /\ (v.whole # 0 \/ StripZeros(v.frac) # <<>>), v.whole, StripZeros(v.frac))

\* ---------------------------------------------------------------- datagrams
\* A datagram by what the handlers can tell of it: bytes that are not UTF-8,
\* text that is not JSON, JSON that is not an object, or an object with the
\* values of its keys (Null for a key that is absent).
Datagram(kind, lat, lon, time, accuracy) ==
    [kind |-> kind, lat |-> lat, lon |-> lon, time |-> time, accuracy |-> accuracy]

BadUtf8   == Datagram("bad_utf8", Null, Null, Null, Null)
NotJson   == Datagram("not_json", Null, Null, Null, Null)
NonObject == Datagram("non_object", Null, Null, Null, Null)
\* {"lat": 1.123456789, "lon": -74.0060, "time": 1700000001, "accuracy": 5}
ReportB == Datagram("object", Num(FALSE, 1, <<1, 2, 3, 4, 5, 6, 7, 8, 9>>), Num(TRUE, 74, <<0, 0, 6, 0>>),
                    Num(FALSE, 1700000001, <<>>), Num(FALSE, 5, <<>>))
\* {"lon": 120.5, "time": 1700000002}
NoLat == Datagram("object", Null, Num(FALSE, 120, <<5>>), Num(FALSE, 1700000002, <<>>), Null)
\* {"lat": 7.25, "lon": 120.5}
NoTime == Datagram("object", Num(FALSE, 7, <<2, 5>>), Num(FALSE, 120, <<5>>), Null, Null)
\* {"lat": 100, "lon": 120.5, "time": 1700000003}
BigLat == Datagram("object", Num(FALSE, 100, <<>>), Num(FALSE, 120, <<5>>),
                   Num(FALSE, 1700000003, <<>>), Null)
\* {"lat": 40.7128, "lon": 120.5, "time": 1700000004.5}
FloatTime == Datagram("object", Num(FALSE, 40, <<7, 1, 2, 8>>), Num(FALSE, 120, <<5>>),
                      Num(FALSE, 1700000004, <<5>>), Null)

Datagrams == {BadUtf8, NotJson, NonObject, ReportB, NoLat, NoTime, BigLat, FloatTime}

\* ------------------------------------------------------------------- table
\* A row of location_data (created_at, the server's clock, is left out).
Row(id, lat, lon, time, accuracy, altitude, speed, provider) ==
    [id |-> id, latitude |-> lat, longitude |-> lon, timestamp_value |-> time,
     accuracy |-> accuracy, altitude |-> altitude, speed |-> speed, provider |-> provider]

\* A row an earlier run of the process left in the table.
PriorRow == Row(5, Quantize(Num(FALSE, 7, <<2, 5>>), CoordScale),
                Quantize(Num(TRUE, 8, <<>>), CoordScale), 1600000000,
                Null, Null, Null, Null)

\* ------------------------------------------------------------------- state
VARIABLES
    lifespan,     \* where the lifespan coroutine is
    db_pool,      \* the global pool handle: "none", "open", "closing", "closed"
    initConns,    \* connections create_location_table holds
    closeWait,    \* operations whose connection pool.close() waits for
    udp,          \* the listener task: "none", "pending", "bound", "listening",
                  \* "failed" (the bind raised), "cancelled"
    cancelReq,    \* udp_server_task.cancel() was called, the task has not seen it yet
    received,     \* datagrams handed to datagram_received
    escaped,      \* exceptions that left datagram_received
    tasks,        \* the insert tasks, in the order they were spawned
    queries,      \* the HTTP queries, in the order they arrived
    tableExists,  \* location_data exists in the store
    rows,         \* the rows of location_data, in commit order
    nextId,       \* the next value of the SERIAL sequence
    rowsBefore    \* the rows the table held when the process started

vars == <<lifespan, db_pool, initConns, closeWait, udp, cancelReq, received, escaped,
          tasks, queries, tableExists, rows, nextId, rowsBefore>>

Init ==
    /\ lifespan = "stopped"
    /\ db_pool = "none"
    /\ initConns = 0
    /\ closeWait = {}
    /\ udp = "none"
    /\ cancelReq = FALSE
    /\ received = 0
    /\ escaped = 0
    /\ tasks = <<>>
    /\ queries = <<>>
    /\ \/ tableExists = FALSE /\ rows = <<>> /\ nextId = 1
       \/ tableExists = TRUE /\ rows = <<PriorRow>> /\ nextId = PriorRow.id + 1
    /\ rowsBefore = rows

\* The state of the Lifecycle Coordinator the lifespan position stands for.
Lifecycle ==
    CASE lifespan \in {"stopped", "finished", "failed"} -> "Stopped"
      [] lifespan \in {"create_pool", "create_table", "table_release", "table_abort"} -> "Starting"
      [] lifespan = "running" -> "Running"
      [] lifespan = "closing" -> "Stopping"

\* ------------------------------------------------------------------- pool
RECURSIVE SumConns(_)
SumConns(ops) == IF ops = <<>> THEN 0 ELSE Head(ops).conns + SumConns(Tail(ops))

\* Connections of the pool that are checked out.
InUse == initConns + SumConns(tasks) + SumConns(queries)

\* The operations holding a connection.
Holders ==
    {<<"task", i>> : i \in {k \in DOMAIN tasks : tasks[k].conns > 0}}
        \cup {<<"query", j>> : j \in {k \in DOMAIN queries : queries[k].conns > 0}}

\* PoolMissing for a handler that does not test the handle.
PoolNeverMissing == FALSE

\* `if not db_pool`: the handle is None.
PoolMissing == db_pool = "none"

\* Acquire for a pool that hands out connections while it closes.
AcquireIgnoringClose == IF InUse < PoolSize THEN "conn" ELSE "waiting"

\* pool.acquire() as far as it runs without suspending: "error" when the pool
\* is closing or closed, "conn" when a connection is free, else "waiting".
Acquire ==
    IF db_pool # "open" THEN "error"
    ELSE IF InUse < PoolSize THEN "conn" ELSE "waiting"

\* CanGetConn for a pool that does not count its connections.
CanAlwaysGetConn == TRUE

\* CanGetConn for a pool that never wakes a task queued in acquire().
CanNeverGetConn == FALSE

\* A waiter of pool.acquire() is handed a connection once one is free.
CanGetConn == InUse < PoolSize

\* ---------------------------------------------------------------- lifespan
\* The server calls the lifespan: it awaits create_db_pool().
LifespanEnter ==
    /\ lifespan = "stopped"
    /\ lifespan' = "create_pool"
    /\ UNCHANGED <<db_pool, initConns, closeWait, udp, cancelReq, received, escaped,
                   tasks, queries, tableExists, rows, nextId, rowsBefore>>

\* create_db_pool() returns.  With a pool the lifespan goes on into
\* create_location_table: it takes a connection and sends CREATE TABLE.
\* Without one it spawns the listener task and yields.
CreatePool ==
    /\ lifespan = "create_pool"
    /\ \E ok \in BOOLEAN :
          IF ok
          THEN /\ db_pool' = "open"
               /\ initConns' = 1
               /\ lifespan' = "create_table"
               /\ udp' = udp
          ELSE /\ db_pool' = "none"
               /\ initConns' = initConns
               /\ lifespan' = "running"
               /\ udp' = "pending"
    /\ UNCHANGED <<closeWait, cancelReq, received, escaped, tasks, queries,
                   tableExists, rows, nextId, rowsBefore>>

\* The store answers CREATE TABLE IF NOT EXISTS, or the statement fails.
CreateTable ==
    /\ lifespan = "create_table"
    /\ \E ok \in BOOLEAN :
          IF ok
          THEN tableExists' = TRUE /\ lifespan' = "table_release"
          ELSE tableExists' = tableExists /\ lifespan' = "table_abort"
    /\ UNCHANGED <<db_pool, initConns, closeWait, udp, cancelReq, received, escaped,
                   tasks, queries, rows, nextId, rowsBefore>>

\* The connection of create_location_table is back in the pool.  After a
\* failure the exception leaves the lifespan before the listener is spawned.
TableRelease ==
    /\ lifespan \in {"table_release", "table_abort"}
    /\ initConns' = 0
    /\ IF lifespan = "table_release"
       THEN lifespan' = "running" /\ udp' = "pending"
       ELSE lifespan' = "failed" /\ udp' = udp
    /\ UNCHANGED <<db_pool, closeWait, cancelReq, received, escaped, tasks, queries,
                   tableExists, rows, nextId, rowsBefore>>

\* The code after the yield: udp_server_task.cancel(), then db_pool.close() up
\* to the point where it waits for the connections in use.
LifespanShutdown ==
    /\ lifespan = "running"
    /\ cancelReq' = (udp \in {"pending", "bound", "listening"})
    /\ IF db_pool # "none"
       THEN /\ db_pool' = "closing"
            /\ closeWait' = Holders
            /\ lifespan' = "closing"
       ELSE /\ UNCHANGED <<db_pool, closeWait>>
            /\ lifespan' = "finished"
    /\ UNCHANGED <<initConns, udp, received, escaped, tasks, queries,
                   tableExists, rows, nextId, rowsBefore>>

\* An operation with a statement in flight on its connection.
InFlight ==
    {<<"task", i>> : i \in {k \in DOMAIN tasks : tasks[k].pc = "conn"}}
        \cup {<<"query", j>> : j \in {k \in DOMAIN queries : queries[k].pc = "conn"}}

\* db_pool.close() returns: every connection it waited for was released and
\* no statement is running on a connection it closes.  close() suspends at
\* least once, and the cancelled listener task was scheduled before it: it
\* has run by then.
PoolClosed ==
    /\ lifespan = "closing"
    /\ ~cancelReq
    /\ closeWait = {}
    /\ InFlight = {}
    /\ db_pool' = "closed"
    /\ lifespan' = "finished"
    /\ UNCHANGED <<initConns, closeWait, udp, cancelReq, received, escaped, tasks, queries,
                   tableExists, rows, nextId, rowsBefore>>

\* ---------------------------------------------------------------- listener
\* run_udp_server starts: create_datagram_endpoint binds the socket, or fails.
UdpStart ==
    /\ udp = "pending"
    /\ ~cancelReq
    /\ \E ok \in BOOLEAN : udp' = IF ok THEN "bound" ELSE "failed"
    /\ UNCHANGED <<lifespan, db_pool, initConns, closeWait, cancelReq, received, escaped,
                   tasks, queries, tableExists, rows, nextId, rowsBefore>>

\* create_datagram_endpoint returns; the task waits on the Event for ever.
UdpListening ==
    /\ udp = "bound"
    /\ ~cancelReq
    /\ udp' = "listening"
    /\ UNCHANGED <<lifespan, db_pool, initConns, closeWait, cancelReq, received, escaped,
                   tasks, queries, tableExists, rows, nextId, rowsBefore>>

\* The cancelled task runs again: CancelledError is thrown into it and the
\* transport, if there is one, is closed.
UdpCancelled ==
    /\ cancelReq
    /\ udp' = "cancelled"
    /\ cancelReq' = FALSE
    /\ UNCHANGED <<lifespan, db_pool, initConns, closeWait, received, escaped,
                   tasks, queries, tableExists, rows, nextId, rowsBefore>>

\* Receiving for a handler that takes a datagram only while the pool has a
\* connection to spare.
ReceivingWhenPoolFree == udp \in {"bound", "listening"} /\ InUse < PoolSize

\* The transport reads datagrams.
Receiving == udp \in {"bound", "listening"}

\* An insert task as asyncio.create_task leaves it.
NewTask(message) ==
    [msg |-> message, pc |-> "spawned", conns |-> 0, outcome |-> "none", id |-> 0]

\* datagram_received(data, addr): data.decode() raises for bytes that are not
\* UTF-8, else the insert task is spawned.
DatagramReceived(data) ==
    /\ Receiving
    /\ received < MaxDatagrams
    /\ received' = received + 1
    /\ IF data.kind = "bad_utf8"
       THEN escaped' = escaped + 1 /\ tasks' = tasks
       ELSE escaped' = escaped /\ tasks' = Append(tasks, NewTask(data))
    /\ UNCHANGED <<lifespan, db_pool, initConns, closeWait, udp, cancelReq,
                   queries, tableExists, rows, nextId, rowsBefore>>

\* ParseOutcome for a parser that lets text that is not JSON through to the
\* INSERT.
ParseOutcomeLenient(message) ==
    CASE message.kind = "non_object" -> "shape_error"
      [] OTHER -> "ok"

\* ------------------------------------------------------------- insert task
\* json.loads(message) and the three data.get calls: JSONDecodeError for text
\* that is not JSON, AttributeError for JSON that is not an object.
ParseOutcome(message) ==
    CASE message.kind = "not_json" -> "json_error"
      [] message.kind = "non_object" -> "shape_error"
      [] OTHER -> "ok"

\* The integer a whole JSON number, or a truncated one, stands for.
IntValue(v) == IF v.neg THEN 0 - v.whole ELSE v.whole

\* What a DECIMAL(p, s) and a BIGINT column make of an argument: None is NULL.
SqlDecimal(v, s) == IF v = Null THEN Null ELSE Quantize(v, s)
SqlBigint(v) == IF v = Null THEN Null ELSE IntValue(v)

\* The driver cannot encode the arguments: $3 is a BIGINT and the time is a
\* float the driver does not take for an integer.
EncodeFails(message, coerce) ==
    IsNum(message.time) /\ ~IsInt(message.time) /\ ~coerce

\* NullViolation for a table whose latitude is nullable.
NullViolationLonTime(message) == message.lon = Null \/ message.time = Null

\* NullViolation for a table whose coordinates are nullable.
NullViolationTimeOnly(message) == message.time = Null

\* A NOT NULL column would be given NULL.
NullViolation(message) ==
    message.lat = Null \/ message.lon = Null \/ message.time = Null

\* A coordinate does not fit its DECIMAL column.
Overflows(message) ==
    \/ message.lat # Null
         /\ ~FitsDecimal(Quantize(message.lat, CoordScale), LatPrecision, CoordScale)
    \/ message.lon # Null
         /\ ~FitsDecimal(Quantize(message.lon, CoordScale), LonPrecision, CoordScale)

\* InsertedRow for an INSERT that writes the accuracy of the payload.
InsertedRowWithAccuracy(id, message) ==
    Row(id, SqlDecimal(message.lat, CoordScale), SqlDecimal(message.lon, CoordScale),
        SqlBigint(message.time), SqlDecimal(message.accuracy, 2), Null, Null, Null)

\* The row INSERT ... VALUES ($1, $2, $3, NULL, NULL, NULL, NULL) stores.
InsertedRow(id, message) ==
    Row(id, SqlDecimal(message.lat, CoordScale), SqlDecimal(message.lon, CoordScale),
        SqlBigint(message.time), Null, Null, Null, Null)

\* AfterId for a sequence that does not advance.
AfterIdStuck(id) == id

\* The sequence value after a row took `id`.
AfterId(id) == id + 1

\* Finish for a task that ends without giving its connection back.
FinishKeepingConn(task, outcome) == [task EXCEPT !.pc = "done", !.outcome = outcome]

\* The task ends: its connection, if it has one, is back in the pool.
Finish(task, outcome) == [task EXCEPT !.pc = "done", !.conns = 0, !.outcome = outcome]

\* The task runs for the first time: pool check, parsing, pool.acquire().
TaskStart(i) ==
    /\ i \in DOMAIN tasks
    /\ tasks[i].pc = "spawned"
    /\ tasks' = [tasks EXCEPT ![i] =
          IF PoolMissing THEN Finish(@, "no_pool")
          ELSE IF ParseOutcome(@.msg) # "ok" THEN Finish(@, ParseOutcome(@.msg))
          ELSE CASE Acquire = "error" -> Finish(@, "pool_error")
                 [] Acquire = "conn" -> [@ EXCEPT !.pc = "conn", !.conns = 1]
                 [] Acquire = "waiting" -> [@ EXCEPT !.pc = "waiting"]]
    /\ UNCHANGED <<lifespan, db_pool, initConns, closeWait, udp, cancelReq, received,
                   escaped, queries, tableExists, rows, nextId, rowsBefore>>

\* A task waiting in pool.acquire() is handed a connection and sends its INSERT.
TaskGetConn(i) ==
    /\ i \in DOMAIN tasks
    /\ tasks[i].pc = "waiting"
    /\ CanGetConn
    /\ tasks' = [tasks EXCEPT ![i] = [@ EXCEPT !.pc = "conn", !.conns = 1]]
    /\ UNCHANGED <<lifespan, db_pool, initConns, closeWait, udp, cancelReq, received,
                   escaped, queries, tableExists, rows, nextId, rowsBefore>>

\* connection.fetchrow(query, *values) ends: the connection was lost, the
\* driver or the store refused the values, or the row is committed.  A lost
\* connection is released at once, any other is reset first.
TaskInsert(i) ==
    /\ i \in DOMAIN tasks
    /\ tasks[i].pc = "conn"
    /\ \E up \in BOOLEAN, coerce \in BOOLEAN, advance \in BOOLEAN :
          LET m == tasks[i].msg IN
          IF ~up
          THEN /\ tasks' = [tasks EXCEPT ![i] = Finish(@, "store_error")]
               /\ closeWait' = closeWait \ {<<"task", i>>}
               /\ UNCHANGED <<rows, nextId>>
          ELSE /\ closeWait' = closeWait
               /\ IF EncodeFails(m, coerce)
                  THEN /\ tasks' = [tasks EXCEPT ![i] = [@ EXCEPT !.pc = "reset", !.outcome = "data_error"]]
                       /\ UNCHANGED <<rows, nextId>>
                  ELSE IF NullViolation(m) \/ Overflows(m)
                  THEN /\ tasks' = [tasks EXCEPT ![i] = [@ EXCEPT !.pc = "reset", !.outcome = "store_reject"]]
                       /\ nextId' = IF NullViolation(m) \/ advance THEN AfterId(nextId) ELSE nextId
                       /\ rows' = rows
                  ELSE /\ tasks' = [tasks EXCEPT ![i] = [@ EXCEPT !.pc = "reset", !.outcome = "inserted", !.id = nextId]]
                       /\ rows' = Append(rows, InsertedRow(nextId, m))
                       /\ nextId' = AfterId(nextId)
    /\ UNCHANGED <<lifespan, db_pool, initConns, udp, cancelReq, received,
                   escaped, queries, tableExists, rowsBefore>>

\* The connection of the task is back in the pool; the task ends.
TaskRelease(i) ==
    /\ i \in DOMAIN tasks
    /\ tasks[i].pc = "reset"
    /\ tasks' = [tasks EXCEPT ![i] = Finish(@, @.outcome)]
    /\ closeWait' = closeWait \ {<<"task", i>>}
    /\ UNCHANGED <<lifespan, db_pool, initConns, udp, cancelReq, received,
                   escaped, queries, tableExists, rows, nextId, rowsBefore>>

\* ------------------------------------------------------------------ queries
\* InsertDesc for ORDER BY id ASC.
RECURSIVE InsertAsc(_, _)
InsertAsc(r, sorted) ==
    IF sorted = <<>> THEN <<r>>
    ELSE IF r.id <= Head(sorted).id THEN <<r>> \o sorted
    ELSE <<Head(sorted)>> \o InsertAsc(r, Tail(sorted))

\* ORDER BY id DESC: the rows by insertion into a sorted sequence.
RECURSIVE InsertDesc(_, _)
InsertDesc(r, sorted) ==
    IF sorted = <<>> THEN <<r>>
    ELSE IF r.id >= Head(sorted).id THEN <<r>> \o sorted
    ELSE <<Head(sorted)>> \o InsertDesc(r, Tail(sorted))

RECURSIVE OrderByIdDesc(_)
OrderByIdDesc(rs) ==
    IF rs = <<>> THEN <<>> ELSE InsertDesc(Head(rs), OrderByIdDesc(Tail(rs)))

\* Limit for a LIMIT that returns one row too few.
LimitOffByOne(rs, n) == SubSeq(rs, 1, IF n <= Len(rs) THEN n - 1 ELSE Len(rs))

\* LIMIT n, for n >= 0.
Limit(rs, n) == SubSeq(rs, 1, IF n < Len(rs) THEN n ELSE Len(rs))

\* SELECT latitude, longitude, timestamp_value, created_at ... LIMIT 1
SelectLatest(rs) ==
    LET top == Limit(OrderByIdDesc(rs), 1) IN
    IF top = <<>> THEN <<>>
    ELSE <<[latitude |-> top[1].latitude, longitude |-> top[1].longitude,
            timestamp_value |-> top[1].timestamp_value]>>

\* SELECT * FROM location_data ORDER BY id DESC LIMIT $1
SelectAll(rs, n) == Limit(OrderByIdDesc(rs), n)

\* The limit of get_all_locations: the query parameter, or the default.
EffectiveLimit(given) == IF given = <<>> THEN DefaultLimit ELSE given[1]

\* The limits a caller gives: none, or a number.
Limits == {<<>>, <<2>>, <<-1>>}

\* A request: `given` is the limit parameter as the caller sent it, `seen`
\* the number of rows the table held when its SELECT ran.
NewQuery(kind, given) ==
    [kind |-> kind, given |-> given, limit |-> EffectiveLimit(given), pc |-> "start",
     conns |-> 0, status |-> 0, body |-> <<>>, seen |-> 0]

Respond(query, status) == [query EXCEPT !.pc = "done", !.conns = 0, !.status = status]

\* A request arrives and its handler runs up to pool.acquire(): 503 without
\* a pool handle; an error of acquire() leaves the handler unhandled (500).
QueryStart(kind, given) ==
    /\ lifespan = "running"
    /\ Len(queries) < MaxQueries
    /\ queries' = Append(queries,
          LET q == NewQuery(kind, given) IN
          IF PoolMissing THEN Respond(q, 503)
          ELSE CASE Acquire = "error" -> Respond(q, 500)
                 [] Acquire = "conn" -> [q EXCEPT !.pc = "conn", !.conns = 1]
                 [] Acquire = "waiting" -> [q EXCEPT !.pc = "waiting"])
    /\ UNCHANGED <<lifespan, db_pool, initConns, closeWait, udp, cancelReq, received,
                   escaped, tasks, tableExists, rows, nextId, rowsBefore>>

\* A handler waiting in pool.acquire() is handed a connection and sends its SELECT.
QueryGetConn(j) ==
    /\ j \in DOMAIN queries
    /\ queries[j].pc = "waiting"
    /\ CanGetConn
    /\ queries' = [queries EXCEPT ![j] = [@ EXCEPT !.pc = "conn", !.conns = 1]]
    /\ UNCHANGED <<lifespan, db_pool, initConns, closeWait, udp, cancelReq, received,
                   escaped, tasks, tableExists, rows, nextId, rowsBefore>>

\* The SELECT ends: the connection was lost (released at once, the exception
\* leaves the handler), the store refused a negative LIMIT, or the rows are
\* there.  The response is sent once the connection is released.
QueryFetch(j) ==
    /\ j \in DOMAIN queries
    /\ queries[j].pc = "conn"
    /\ \E up \in BOOLEAN :
          LET q == queries[j] IN
          IF ~up
          THEN /\ queries' = [queries EXCEPT ![j] = Respond(@, 500)]
               /\ closeWait' = closeWait \ {<<"query", j>>}
          ELSE /\ closeWait' = closeWait
               /\ queries' = [queries EXCEPT ![j] =
                     IF q.kind = "latest"
                     THEN LET result == SelectLatest(rows) IN
                          [@ EXCEPT !.pc = "reset", !.seen = Len(rows),
                                    !.status = IF result = <<>> THEN 404 ELSE 200,
                                    !.body = result]
                     ELSE IF q.limit < 0
                     THEN [@ EXCEPT !.pc = "reset", !.status = 500]
                     ELSE [@ EXCEPT !.pc = "reset", !.seen = Len(rows), !.status = 200,
                                    !.body = SelectAll(rows, q.limit)]]
    /\ UNCHANGED <<lifespan, db_pool, initConns, udp, cancelReq, received,
                   escaped, tasks, tableExists, rows, nextId, rowsBefore>>

\* The connection of the handler is back in the pool; the response goes out.
QueryRelease(j) ==
    /\ j \in DOMAIN queries
    /\ queries[j].pc = "reset"
    /\ queries' = [queries EXCEPT ![j] = Respond(@, @.status)]
    /\ closeWait' = closeWait \ {<<"query", j>>}
    /\ UNCHANGED <<lifespan, db_pool, initConns, udp, cancelReq, received,
                   escaped, tasks, tableExists, rows, nextId, rowsBefore>>

\* ------------------------------------------------------------ specification
Next ==
    \/ LifespanEnter
    \/ CreatePool
    \/ CreateTable
    \/ TableRelease
    \/ LifespanShutdown
    \/ PoolClosed
    \/ UdpStart
    \/ UdpListening
    \/ UdpCancelled
    \/ \E data \in Datagrams : DatagramReceived(data)
    \/ \E i \in 1..MaxDatagrams : TaskStart(i)
    \/ \E i \in 1..MaxDatagrams : TaskGetConn(i)
    \/ \E i \in 1..MaxDatagrams : TaskInsert(i)
    \/ \E i \in 1..MaxDatagrams : TaskRelease(i)
    \/ QueryStart("latest", <<>>)
    \/ \E given \in Limits : QueryStart("all", given)
    \/ \E j \in 1..MaxQueries : QueryGetConn(j)
    \/ \E j \in 1..MaxQueries : QueryFetch(j)
    \/ \E j \in 1..MaxQueries : QueryRelease(j)

Spec == Init /\ [][Next]_vars

\* The event loop runs every task that is ready, and every store round-trip
\* ends: each step of an insert task, and each fetch and release of a query,
\* is taken if it stays possible.
FairSpec ==
    /\ Spec
    /\ \A i \in 1..MaxDatagrams :
          /\ WF_vars(TaskStart(i))
          /\ WF_vars(TaskGetConn(i))
          /\ WF_vars(TaskInsert(i))
          /\ WF_vars(TaskRelease(i))
    /\ \A j \in 1..MaxQueries :
          /\ WF_vars(QueryFetch(j))
          /\ WF_vars(QueryRelease(j))

\* ================================================================== claims
AllTasksDone == \A i \in DOMAIN tasks : tasks[i].pc = "done"

\* The task met a pool it could use and a store that answered.
Served(i) == tasks[i].outcome \notin {"none", "no_pool", "pool_error", "store_error"}

\* lat, lon and time are numbers.
WellFormed(message) ==
    message.kind = "object" /\ IsNum(message.lat) /\ IsNum(message.lon) /\ IsNum(message.time)

\* lat, lon and time are numbers the columns take: the coordinates, rounded
\* to 8 fractional digits, are below 100 and 1000 in magnitude and the time
\* is an integer.
Storable(message) ==
    /\ WellFormed(message)
    /\ IsInt(message.time)
    /\ Quantize(message.lat, 8).whole < 100
    /\ Quantize(message.lon, 8).whole < 1000

Malformed(message) ==
    \/ message.kind \in {"bad_utf8", "not_json", "non_object"}
    \/ message.lat = Null \/ message.lon = Null \/ message.time = Null

\* The rows committed since the process started.
NewRows == SubSeq(rows, Len(rowsBefore) + 1, Len(rows))

IdsIncrease(rs) == \A k \in 1..(Len(rs) - 1) : rs[k].id < rs[k + 1].id
IdsDistinct(rs) == \A k, l \in DOMAIN rs : k # l => rs[k].id # rs[l].id

C2_MalformedAddsNoRow ==
    /\ Len(rows) = Len(rowsBefore)
          + Cardinality({i \in DOMAIN tasks : tasks[i].outcome = "inserted"})
    /\ \A i \in DOMAIN tasks :
          /\ tasks[i].msg.kind # "bad_utf8"
          /\ Malformed(tasks[i].msg) => tasks[i].outcome # "inserted" /\ tasks[i].id = 0
          /\ (Storable(tasks[i].msg) /\ tasks[i].pc = "done" /\ Served(i))
                => tasks[i].outcome = "inserted"
    /\ received = escaped + Len(tasks)
    /\ (Receiving /\ received < MaxDatagrams /\ received > 0)
          => \A data \in Datagrams : ENABLED DatagramReceived(data)

\* After a malformed datagram a storable one was received and inserted.
C2_Witness ==
    /\ Len(tasks) = 2
    /\ Malformed(tasks[1].msg)
    /\ tasks[1].pc = "done"
    /\ Storable(tasks[2].msg)
    /\ tasks[2].outcome = "inserted"
    /\ Len(rows) = Len(rowsBefore) + 1

\* A "latest" request that was answered from the store.
AnsweredLatest(j) ==
    /\ queries[j].kind = "latest"
    /\ queries[j].pc = "done"
    /\ queries[j].status \notin {500, 503}

\* The task whose insert was the last to commit before query j read the
\* table, if a task of this run committed it.
LastCommitBy(j, i) ==
    /\ queries[j].seen > Len(rowsBefore)
    /\ tasks[i].outcome = "inserted"
    /\ tasks[i].id = rows[queries[j].seen].id

ReservedNull(r) ==
    r.accuracy = Null /\ r.altitude = Null /\ r.speed = Null /\ r.provider = Null

\* The integer n as a number.
IntNum(n) == Num(n < 0, IF n < 0 THEN 0 - n ELSE n, <<>>)

\* C3 (as claimed): for a payload with numeric lat, lon and time whose insert
\* was the last to commit before a "latest" query, the query returns exactly
\* the payload's three values, and the stored row has NULL in accuracy,
\* altitude, speed and provider.
C3_Original ==
    \A j \in DOMAIN queries : \A i \in DOMAIN tasks :
        (AnsweredLatest(j) /\ LastCommitBy(j, i) /\ WellFormed(tasks[i].msg))
            => /\ queries[j].status = 200
               /\ DecimalValue(queries[j].body[1].latitude, 8) = NumValue(tasks[i].msg.lat)
               /\ DecimalValue(queries[j].body[1].longitude, 8) = NumValue(tasks[i].msg.lon)
               /\ IntNum(queries[j].body[1].timestamp_value) = NumValue(tasks[i].msg.time)
               /\ ReservedNull(rows[queries[j].seen])

\* The digits of v after the point, without trailing zeros, are at most n.
AtMostDigits(v, n) == Len(StripZeros(v.frac)) <= n

\* C3 (amended): for a payload with numeric lat and lon and an integer time
\* whose insert was the last to commit before a "latest" query, the query
\* returns lat and lon rounded to the nearest value with 8 fractional digits
\* (the payload's own value when it has no more than 8) and the time exactly;
\* every row stored has NULL in accuracy, altitude, speed and provider.
C3_LatestReturnsPayload ==
    /\ \A j \in DOMAIN queries : \A i \in DOMAIN tasks :
          (AnsweredLatest(j) /\ LastCommitBy(j, i) /\ WellFormed(tasks[i].msg)
                /\ IsInt(tasks[i].msg.time))
             => LET body == queries[j].body[1]
                    m    == tasks[i].msg
                IN  /\ queries[j].status = 200
                    /\ body.latitude = Quantize(m.lat, 8)
                    /\ body.longitude = Quantize(m.lon, 8)
                    /\ AtMostDigits(m.lat, 8) => DecimalValue(body.latitude, 8) = NumValue(m.lat)
                    /\ AtMostDigits(m.lon, 8) => DecimalValue(body.longitude, 8) = NumValue(m.lon)
                    /\ IntNum(body.timestamp_value) = NumValue(m.time)
    /\ \A k \in DOMAIN NewRows : ReservedNull(NewRows[k])

\* A "latest" query answered with the row of a payload that carried an
\* accuracy key and a latitude of nine fractional digits.
C3_Witness ==
    \E j \in DOMAIN queries : \E i \in DOMAIN tasks :
        /\ AnsweredLatest(j)
        /\ LastCommitBy(j, i)
        /\ IsInt(tasks[i].msg.time)
        /\ tasks[i].msg.accuracy # Null
        /\ ~AtMostDigits(tasks[i].msg.lat, 8)
        /\ AtMostDigits(tasks[i].msg.lon, 8)

\* What "latest" returns of a row.
Projection(r) ==
    [latitude |-> r.latitude, longitude |-> r.longitude, timestamp_value |-> r.timestamp_value]

\* C4: a "latest" query answered from the store is answered 404 exactly when
\* the table was empty when it read it, and else 200 with the row whose id is
\* the greatest among the rows committed at that moment.
C4_LatestIsGreatestId ==
    \A j \in DOMAIN queries :
        AnsweredLatest(j) =>
            /\ queries[j].status \in {200, 404}
            /\ queries[j].status = 404 <=> queries[j].seen = 0
            /\ queries[j].status = 200 =>
                  \E k \in 1..queries[j].seen :
                      /\ queries[j].body = <<Projection(rows[k])>>
                      /\ \A l \in 1..queries[j].seen : rows[l].id <= rows[k].id

\* A "latest" query read two rows, one of this run, and was answered while
\* another insert committed after its read.
C4_Witness ==
    \E j \in DOMAIN queries :
        /\ AnsweredLatest(j)
        /\ queries[j].status = 200
        /\ queries[j].seen = 2
        /\ Len(rows) = 3

\* A "recent" request that was answered 200.
AnsweredAll(j) ==
    queries[j].kind = "all" /\ queries[j].pc = "done" /\ queries[j].status = 200

\* C5: a "recent" query with limit L answered 200 returns min(L, n) rows, n
\* the number of rows in the table when it read it, in strictly descending
\* id order, and they are the rows with the greatest ids; with no limit
\* given L is 100.
C5_RecentReturnsMinLimit ==
    \A j \in DOMAIN queries :
        AnsweredAll(j) =>
            LET L    == IF queries[j].given = <<>> THEN 100 ELSE queries[j].given[1]
                n    == queries[j].seen
                body == queries[j].body
            IN  /\ Len(body) = IF L < n THEN L ELSE n
                /\ \A k \in 1..(Len(body) - 1) : body[k].id > body[k + 1].id
                /\ \A k \in DOMAIN body : \E l \in 1..n : rows[l] = body[k]
                /\ \A l \in 1..n :
                      (\A k \in DOMAIN body : body[k] # rows[l])
                         => \A k \in DOMAIN body : rows[l].id < body[k].id

\* A "recent" query with limit 2 read three rows and returned two.
C5_Witness ==
    \E j \in DOMAIN queries :
        /\ AnsweredAll(j)
        /\ queries[j].given = <<2>>
        /\ queries[j].seen = 3
        /\ Len(queries[j].body) = 2

\* C6: when the pool could not be constructed at startup, the lifespan is
\* Running all the same (or has since shut down), the listener task was
\* started, and every query has been answered 503 at once, without a
\* connection and without reading the table.
C6_DegradedStart ==
    (db_pool = "none" /\ lifespan \notin {"stopped", "create_pool"})
        => /\ Lifecycle = "Running" \/ lifespan = "finished"
           /\ udp # "none"
           /\ InUse = 0
           /\ \A j \in DOMAIN queries :
                 /\ queries[j].pc = "done"
                 /\ queries[j].status = 503
                 /\ queries[j].conns = 0
                 /\ queries[j].seen = 0
                 /\ queries[j].body = <<>>

\* Running without a pool, the listener bound, a query answered 503.
C6_Witness ==
    /\ db_pool = "none"
    /\ Lifecycle = "Running"
    /\ Receiving
    /\ \E j \in DOMAIN queries : queries[j].status = 503

\* C7: the connections held by insert tasks, query handlers and schema
\* initialization together never exceed the pool size.
C7_PoolBound == InUse <= PoolSize

\* Every connection is checked out while another operation waits for one.
C7_Witness ==
    /\ InUse = PoolSize
    /\ \/ \E i \in DOMAIN tasks : tasks[i].pc = "waiting"
       \/ \E j \in DOMAIN queries : queries[j].pc = "waiting"

\* Schema initialization is running.
InitRunning == lifespan \in {"create_table", "table_release", "table_abort"}

\* C8: every operation holds at most one connection and none once it has
\* finished, however it ended; with no operation in progress no connection
\* is in use.
C8_ReleasedOnAllPaths ==
    /\ initConns <= 1
    /\ ~InitRunning => initConns = 0
    /\ \A i \in DOMAIN tasks :
          tasks[i].conns <= 1 /\ (tasks[i].pc = "done" => tasks[i].conns = 0)
    /\ \A j \in DOMAIN queries :
          queries[j].conns <= 1 /\ (queries[j].pc = "done" => queries[j].conns = 0)
    /\ (~InitRunning /\ AllTasksDone /\ \A j \in DOMAIN queries : queries[j].pc = "done")
          => InUse = 0

\* One task ended in a store error, one in a constraint failure, a query
\* lost its connection, and nothing is in use.
C8_Witness ==
    /\ AllTasksDone
    /\ \E i \in DOMAIN tasks : tasks[i].outcome = "store_error"
    /\ \E i \in DOMAIN tasks : tasks[i].outcome = "store_reject"
    /\ \E j \in DOMAIN queries : queries[j].pc = "done" /\ queries[j].status = 500
    /\ InUse = 0

PoolClosing == db_pool \in {"closing", "closed"}

\* A step that, the pool closing, writes no row and hands no insert task a
\* connection.
C9_StepOriginal ==
    PoolClosing =>
        /\ rows' = rows
        /\ \A i \in DOMAIN tasks : tasks[i].conns = 0 => tasks'[i].conns = 0

\* C9 (as claimed): every step taken once the pool has begun closing leaves
\* the table as it is and hands no insert task a connection.
C9_Original == [][C9_StepOriginal]_vars

\* A step that, the pool closing, leaves every task that has not reached its
\* acquire without a connection and without a row.
C9_Step ==
    PoolClosing =>
        \A i \in DOMAIN tasks' :
            (i \notin DOMAIN tasks \/ tasks[i].pc = "spawned")
               => /\ tasks'[i].pc \in {"spawned", "done"}
                  /\ tasks'[i].conns = 0
                  /\ tasks'[i].outcome # "inserted"
                  /\ tasks'[i].pc = "done" => rows' = rows

\* C9 (amended): once the pool has begun closing, an insert task that had not
\* reached its acquire (spawned before the close or after it) never gets a
\* connection, never waits for one and writes no row: its step ends it
\* without an insert.
C9_NoAcquireAfterClose == [][C9_Step]_vars

\* A task that reached its acquire after the close began was refused, while
\* a task that held a connection when it began wrote its row afterwards.
C9_Witness ==
    /\ PoolClosing
    /\ \E i \in DOMAIN tasks : tasks[i].outcome = "pool_error"
    /\ \E i \in DOMAIN tasks : tasks[i].outcome = "inserted"

\* A step that, the shutdown code having run, receives no datagram and
\* spawns no task.
C10_Step ==
    lifespan \in {"closing", "finished"}
        => received' = received /\ Len(tasks') = Len(tasks)

\* C10: once the shutdown code has cancelled the listener task (and while
\* the pool closes), no datagram is received and no insert task is spawned.
C10_ListenerStopsFirst == [][C10_Step]_vars

\* C11: once the shutdown code has returned (lifecycle back to Stopped), the
\* datagram endpoint is no longer bound and no pool connection is held, both
\* with a pool and without one, whatever the listener task was doing when it
\* was cancelled.
C11_ShutdownReleasesAll ==
    lifespan = "finished" => ~(udp \in {"bound", "listening"}) /\ InUse = 0

\* The outcomes that report a failure of a persistence attempt.
Failures ==
    {"no_pool", "json_error", "shape_error", "pool_error", "data_error",
     "store_error", "store_reject"}

\* The outcome an attempt reaches for its own message when the pool and the
\* store serve it: a function of that message alone.
OwnOutcomes(message) ==
    CASE message.kind = "not_json" -> {"json_error"}
      [] message.kind = "non_object" -> {"shape_error"}
      [] Null \in {message.lat, message.lon, message.time} -> {"store_reject"}
      [] ~IsInt(message.time) -> {"data_error", "inserted"}
      [] IntValue(message.lat) >= 100 \/ IntValue(message.lon) >= 1000 -> {"store_reject"}
      [] OTHER -> {"inserted"}

\* A step in which attempt i fails or carries its failure on.
FailingStep(i) ==
    /\ i \in DOMAIN tasks
    /\ tasks'[i] # tasks[i]
    /\ tasks'[i].outcome \in Failures

\* A failing step of one attempt leaves the listener, the lifecycle, the
\* pool handle, the table, the queries and every other attempt as they
\* were; and what an attempt ends with depends on its own message and on
\* the pool and the store, never on the other attempts.
C12_Step ==
    /\ \A i \in DOMAIN tasks :
          FailingStep(i) =>
              /\ udp' = udp /\ cancelReq' = cancelReq /\ received' = received
              /\ escaped' = escaped /\ lifespan' = lifespan /\ db_pool' = db_pool
              /\ rows' = rows /\ queries' = queries
              /\ Len(tasks') = Len(tasks)
              /\ \A k \in DOMAIN tasks : k # i => tasks'[k] = tasks[k]
    /\ \A k \in DOMAIN tasks' :
          tasks'[k].pc = "done" =>
              tasks'[k].outcome \in
                  OwnOutcomes(tasks'[k].msg) \cup {"no_pool", "pool_error", "store_error"}

\* C12: a failure inside one persistence attempt (invalid JSON, wrong shape,
\* constraint violation, connection loss, pool unavailable) is confined to
\* that attempt: the listener stays as it was and keeps receiving, and every
\* other attempt in flight is left untouched and ends with the outcome its
\* own message calls for.
C12_FailureConfined == [][C12_Step]_vars

\* One attempt has failed in the store while another, in flight at the same
\* time with a storable message, was inserted, the listener still receiving.
C12_Witness ==
    /\ Receiving
    /\ Len(tasks) = 2
    /\ tasks[1].outcome \in {"store_reject", "store_error", "json_error"}
    /\ tasks[1].pc = "reset"
    /\ tasks[2].outcome = "inserted"

\* C13: receiving a datagram never waits for its dispatch: while the listener
\* runs, the receive step is enabled for every datagram, also when all the
\* pool connections are in use and earlier insert tasks wait for a connection
\* or for the store; and the handler returns once the task is spawned, without
\* awaiting it: a spawned task has not run, holds nothing and has no outcome.
C13_ReceiveNeverWaits ==
    /\ (udp \in {"bound", "listening"} /\ received < MaxDatagrams)
          => \A data \in Datagrams : ENABLED DatagramReceived(data)
    /\ \A i \in DOMAIN tasks :
          tasks[i].pc = "spawned" => tasks[i].conns = 0 /\ tasks[i].outcome = "none"

\* All the connections are in use, the first insert task waits for the store,
\* and a second datagram has been received: its task is spawned and has not
\* run.
C13_Witness ==
    /\ udp \in {"bound", "listening"}
    /\ InUse = PoolSize
    /\ Len(tasks) = 2
    /\ tasks[1].pc = "conn"
    /\ tasks[2].pc = "spawned"

\* The payload decoded to an object that lacks lat, lon or time.
LacksKey(message) ==
    message.kind = "object" /\ Null \in {message.lat, message.lon, message.time}

\* C14: a decoded payload that lacks lat, lon or time is still forwarded and
\* is persisted: once its task has been served by the pool and the store, a
\* row is stored for it with NULL in the columns whose keys were absent.
C14_MissingKeysStored ==
    \A i \in DOMAIN tasks :
        (tasks[i].pc = "done" /\ LacksKey(tasks[i].msg) /\ Served(i))
            => /\ tasks[i].outcome = "inserted"
               /\ \E n \in DOMAIN rows :
                     /\ rows[n].id = tasks[i].id
                     /\ (tasks[i].msg.lat = Null => rows[n].latitude = Null)
                     /\ (tasks[i].msg.lon = Null => rows[n].longitude = Null)
                     /\ (tasks[i].msg.time = Null => rows[n].timestamp_value = Null)

\* Every row has a latitude and a longitude, and no two rows share an id.
RowsSound(rs) ==
    /\ \A n \in DOMAIN rs : rs[n].latitude # Null /\ rs[n].longitude # Null
    /\ \A n, k \in DOMAIN rs : n # k => rs[n].id # rs[k].id

\* A step that keeps the rows it found, unchanged and in place, and leaves
\* a sound table.
C15_Step ==
    /\ RowsSound(rows) /\ RowsSound(rows')
    /\ Len(rows') >= Len(rows)
    /\ \A n \in DOMAIN rows : rows'[n] = rows[n]

\* C15: in every reachable state every row of location_data has a non-null
\* latitude, a non-null longitude and an id no other row has, whatever
\* datagrams were ingested; and a row once inserted is never changed or
\* removed.
C15_RowsSoundAndKept == [][C15_Step]_vars

\* Datagrams without lat, out of range and malformed were ingested beside a
\* storable one, and the table has grown beyond the row it started with.
C15_Witness ==
    /\ rows # <<>> /\ rows[1] = PriorRow
    /\ Len(rows) = 2
    /\ \E i \in DOMAIN tasks : tasks[i].msg = NoLat /\ tasks[i].pc = "done" /\ Served(i)

\* C16: every latest and every recent request ends in 200, 404 or 503: a
\* store error, a pool closing or closed behind a handle that is still
\* there, or a limit that is not positive is answered explicitly and never
\* leaves the handler as an unhandled fault.
C16_QueriesAnswered ==
    \A j \in DOMAIN queries :
        queries[j].pc = "done" => queries[j].status \in {200, 404, 503}

\* C17: a datagram that fails UTF-8 or JSON decoding is discarded inside the
\* handler: no exception leaves datagram_received, and the task spawned for
\* text that is not JSON ends with the decode error caught, without ever
\* holding a pool connection.
C17_DecodeFailureDiscarded ==
    /\ escaped = 0
    /\ \A i \in DOMAIN tasks :
          tasks[i].msg.kind = "not_json"
             => /\ tasks[i].conns = 0
                /\ tasks[i].pc \in {"spawned", "done"}
                /\ tasks[i].outcome \in {"none", "no_pool", "json_error"}

\* A step that, the schema initialization having failed behind a constructed
\* pool, goes on to Running with the listener started, and never gives the
\* startup up.
C18_Step ==
    /\ lifespan' # "failed"
    /\ lifespan = "table_abort" /\ lifespan' # lifespan
          => lifespan' = "running" /\ udp' = "pending"

\* C18: if the schema initialization fails at startup after the pool was
\* constructed, the lifecycle still reaches Running, degraded, with the
\* listener started: the startup is never aborted.
C18_SchemaFailureDegrades == [][C18_Step]_vars

\* The insert tasks in flight: spawned and not yet ended.
InFlightTasks == {i \in DOMAIN tasks : tasks[i].pc # "done"}

\* C19: the number of persistence attempts in flight at the same time stays
\* within a fixed bound whatever the number of datagrams: it stays below the
\* number of datagrams delivered once that number exceeds the bound, here
\* below the MaxDatagrams datagrams the listener is given.
C19_InFlightBounded == Cardinality(InFlightTasks) < MaxDatagrams

\* C20: with more attempts in flight than the pool has connections to give,
\* every attempt eventually finishes, with its insert done or with a logged
\* failure: no attempt waits for a connection forever and the pool does not
\* deadlock, given that every task that is ready runs and every store
\* round-trip ends.
C20_EveryAttemptFinishes ==
    \A i \in 1..MaxDatagrams :
        (i \in DOMAIN tasks) ~> (i \in DOMAIN tasks /\ tasks[i].pc = "done")

\* The second attempt waits in acquire(), every connection being in use, one
\* of them by the first attempt, whose row is committed.
C20_Witness ==
    /\ Len(tasks) = 2
    /\ InUse = PoolSize
    /\ tasks[1].pc = "reset" /\ tasks[1].outcome = "inserted"
    /\ tasks[2].pc = "waiting"

====
